---- MODULE Spec2Model ----
(***************************************************************************)
(* Model of src/src/data_processing.py: the table-cleaning stages of the   *)
(* survey pipeline.  A pandas DataFrame is a record of ordered column      *)
(* names, row labels, per-column cell sequences and per-column dtypes; the *)
(* Python value None is the table with absent = TRUE.  Each stage is a     *)
(* pure operator from its arguments to its return value, and one action    *)
(* per stage applies it to the current table.                              *)
(*                                                                         *)
(* pandas semantics assumed (pandas 1.x / 2.x, copy-on-write off): a       *)
(* comparison with a missing value is False; Series.median/mode skip       *)
(* missing values; df[col].fillna(v, inplace=True) writes through to df.   *)
(***************************************************************************)
EXTENDS Integers, Sequences, FiniteSets, TLC

VARIABLES
    df,       \* the table returned by the last stage (the input table at start)
    prev,     \* the table the last stage was called with
    op,       \* name of the last stage called ("start" before any call)
    arg,      \* the argument of the last stage (column map, min_age, ...)
    report,   \* the count the last stage printed (imputed columns, unmapped values)
    saved,    \* the table last written by save_data (None when nothing was written)
    steps     \* number of stage calls so far

vars == <<df, prev, op, arg, report, saved, steps>>

----------------------------------------------------------------------------
(* Bounds of the model *)

MaxRows == 3
MaxSteps == 2
MaxMap == 2
MaxImputeRows == 2
MaxAgeRows == 4

----------------------------------------------------------------------------
(* Cell values: integer/float, text, missing *)

NaN == [k |-> "nan", n |-> 0, s |-> ""]
Num(n) == [k |-> "num", n |-> n, s |-> ""]
Txt(s) == [k |-> "txt", n |-> 0, s |-> s]

isna(v) == v.k = "nan"
notna(v) == v.k # "nan"

Range(f) == {f[i] : i \in DOMAIN f}

\* positions from i on where the boolean mask is true, in increasing order
RECURSIVE Positions(_, _)
Positions(mask, i) ==
    IF i > Len(mask) THEN <<>>
    ELSE (IF mask[i] THEN <<i>> ELSE <<>>) \o Positions(mask, i + 1)

----------------------------------------------------------------------------
(* Tables *)

None == [absent |-> TRUE, cols |-> <<>>, index |-> <<>>,
         data |-> [c \in {} |-> <<>>], dtype |-> [c \in {} |-> "num"]]

DataFrame(cols, index, data, dtype) ==
    [absent |-> FALSE, cols |-> cols, index |-> index, data |-> data, dtype |-> dtype]

columns(t) == Range(t.cols)

\* DataFrame.empty: an axis of length 0
empty(t) == Len(t.cols) = 0 \/ Len(t.index) = 0

is_numeric_dtype(t, c) == t.dtype[c] = "num"

\* dtype pandas gives a column built from these cells
InferDtype(cells) == IF \E i \in DOMAIN cells : cells[i].k = "txt" THEN "obj" ELSE "num"

\* df[col] = cells : replaces the column in place, or appends it as the last column
SetColumn(t, c, cells, dt) ==
    LET cs == IF c \in columns(t) THEN t.cols ELSE Append(t.cols, c)
    IN  DataFrame(cs, t.index,
                  [x \in Range(cs) |-> IF x = c THEN cells ELSE t.data[x]],
                  [x \in Range(cs) |-> IF x = c THEN dt ELSE t.dtype[x]])

\* Series.fillna(value): missing cells take value, others are kept
fillna(cells, value) == [i \in DOMAIN cells |-> IF isna(cells[i]) THEN value ELSE cells[i]]

\* dtype of a column after cells were overwritten with value
DtypeAfterWrite(dt, value) == IF value.k = "txt" THEN "obj" ELSE dt

\* df[col].fillna(value, inplace=True)
FillColumn(t, c, value) ==
    SetColumn(t, c, fillna(t.data[c], value),
              IF \E i \in DOMAIN t.data[c] : isna(t.data[c][i])
              THEN DtypeAfterWrite(t.dtype[c], value) ELSE t.dtype[c])

any_isnull(t, c) == \E i \in DOMAIN t.data[c] : isna(t.data[c][i])

----------------------------------------------------------------------------
(* select_and_rename_cols(df, column_map).  A column map is a sequence of  *)
(* <<source, destination>> pairs with distinct sources, in the dict's      *)
(* iteration order.                                                        *)

\* existing_cols = {orig: new for orig, new in column_map.items() if orig in df.columns}
existing_cols(t, column_map) ==
    LET pos == Positions([i \in DOMAIN column_map |-> column_map[i][1] \in columns(t)], 1)
    IN  [i \in DOMAIN pos |-> column_map[pos[i]]]

\* mutant: the selection without the rename
SelectNotRenamed(t, ex) ==
    DataFrame([i \in DOMAIN ex |-> ex[i][1]], t.index,
              [c \in {ex[i][1] : i \in DOMAIN ex} |-> t.data[c]],
              [c \in {ex[i][1] : i \in DOMAIN ex} |-> t.dtype[c]])

\* df[list(existing_cols.keys())].copy() followed by rename(columns=existing_cols)
SelectRenamed(t, ex) ==
    LET src(c) == (CHOOSE i \in DOMAIN ex : ex[i][2] = c)
    IN  DataFrame([i \in DOMAIN ex |-> ex[i][2]], t.index,
                  [c \in {ex[i][2] : i \in DOMAIN ex} |-> t.data[ex[src(c)][1]]],
                  [c \in {ex[i][2] : i \in DOMAIN ex} |-> t.dtype[ex[src(c)][1]]])

select_and_rename_cols(t, column_map) ==
    IF t.absent \/ empty(t) THEN None
    ELSE LET ex == existing_cols(t, column_map)
         IN  IF Len(ex) = 0 THEN None ELSE SelectRenamed(t, ex)

----------------------------------------------------------------------------
(* Statistics of a column *)

\* lexicographic order of the text values used in the model
Lexicographic == <<"14", "25", "No", "Other", "Rural", "Urban", "Yes", "abc">>

TextRank(s) == CHOOSE i \in DOMAIN Lexicographic : Lexicographic[i] = s

\* order in which Series.mode() sorts its result
Before(v, w) ==
    IF v.k = "num" /\ w.k = "num" THEN v.n < w.n
    ELSE IF v.k = "txt" /\ w.k = "txt" THEN TextRank(v.s) < TextRank(w.s)
    ELSE v.k = "num"

\* the numbers of the non-missing cells, ascending (equal numbers in row order)
SortedNumbers(cells) ==
    LET nums == {i \in DOMAIN cells : cells[i].k = "num"}
        rank(i) == 1 + Cardinality({j \in nums : \/ cells[j].n < cells[i].n
                                                 \/ cells[j].n = cells[i].n /\ j < i})
    IN  [r \in 1..Cardinality(nums) |-> cells[CHOOSE i \in nums : rank(i) = r].n]

\* Series.median(): missing cells skipped; NaN when no value is left.
\* The amounts of the model are even, so the mean of the two middle values is exact.
median(cells) ==
    LET srt == SortedNumbers(cells)
        len == Len(srt)
    IN  IF len = 0 THEN NaN
        ELSE IF len % 2 = 1 THEN Num(srt[(len + 1) \div 2])
        ELSE Num((srt[len \div 2] + srt[len \div 2 + 1]) \div 2)

\* Series.mode(): the most frequent non-missing values, sorted; empty when all are missing
mode(cells) ==
    LET present == {cells[i] : i \in {j \in DOMAIN cells : notna(cells[j])}}
        freq(v) == Cardinality({i \in DOMAIN cells : cells[i] = v})
        top == {v \in present : \A w \in present : freq(w) <= freq(v)}
    IN  IF top = {} THEN <<>>
        ELSE <<CHOOSE v \in top : \A w \in top : w = v \/ Before(v, w)>>

----------------------------------------------------------------------------
(* filter_by_age(df, min_age, age_column) *)

Parsable == {"14", "25"}

NumberOf(s) == IF s = "14" THEN 14 ELSE 25

\* pd.to_numeric(series, errors='coerce'): numbers are kept, numeric text is
\* parsed, any other text becomes missing
to_numeric(cells) ==
    [i \in DOMAIN cells |->
        IF cells[i].k = "txt"
        THEN (IF cells[i].s \in Parsable THEN Num(NumberOf(cells[i].s)) ELSE NaN)
        ELSE cells[i]]

\* df[mask].copy(): the rows at the given positions, in order
SelectRows(t, pos) ==
    DataFrame(t.cols, [i \in DOMAIN pos |-> t.index[pos[i]]],
              [c \in columns(t) |-> [i \in DOMAIN pos |-> t.data[c][pos[i]]]],
              t.dtype)

\* mutant: a strict comparison
AgeAbove(v, min_age) == v.k = "num" /\ v.n > min_age

\* cell >= min_age; False for a missing cell
AgeAtLeast(v, min_age) == v.k = "num" /\ v.n >= min_age

filter_by_age(t, min_age, age_column) ==
    IF t.absent \/ empty(t) THEN None
    ELSE IF age_column \notin columns(t) THEN t
    ELSE LET num == IF is_numeric_dtype(t, age_column) THEN t
                    ELSE SetColumn(t, age_column, to_numeric(t.data[age_column]), "num")
             mask == [i \in DOMAIN num.index |-> AgeAtLeast(num.data[age_column][i], min_age)]
         IN  SelectRows(num, Positions(mask, 1))

----------------------------------------------------------------------------
(* drop_columns(df, columns_to_drop) *)

drop_columns(t, columns_to_drop) ==
    IF t.absent \/ empty(t) THEN None
    ELSE LET cols_found == {c \in Range(columns_to_drop) : c \in columns(t)}
             pos == Positions([i \in DOMAIN t.cols |-> t.cols[i] \notin cols_found], 1)
         IN  IF cols_found = {} THEN t
             ELSE DataFrame([i \in DOMAIN pos |-> t.cols[pos[i]]], t.index,
                            [c \in columns(t) \ cols_found |-> t.data[c]],
                            [c \in columns(t) \ cols_found |-> t.dtype[c]])

----------------------------------------------------------------------------
(* impute_missing_values(df, strategies).  strategies is a sequence of     *)
(* <<column, strategy>> pairs in the dict's iteration order; a strategy is *)
(* the text 'median' or 'mode', a literal number or text, or a value of    *)
(* another type.                                                           *)

OtherType == [k |-> "other", n |-> 0, s |-> ""]

\* one pass of the loop body for (col, strategy) on state [df, count]
ImputeColumn(st, col, strategy) ==
    LET t == st.df
        filled(v) == [df |-> FillColumn(t, col, v), count |-> st.count + 1]
    IN  IF col \notin columns(t) THEN st
        ELSE IF ~any_isnull(t, col) THEN st
        ELSE IF strategy = Txt("median")
             THEN (IF ~is_numeric_dtype(t, col) THEN st
                   ELSE filled(median(t.data[col])))
        ELSE IF strategy = Txt("mode")
             THEN (IF mode(t.data[col]) = <<>> THEN st
                   ELSE filled(mode(t.data[col])[1]))
        ELSE IF strategy.k \in {"num", "txt"} THEN filled(strategy)
        ELSE st

RECURSIVE ImputeLoop(_, _, _)
ImputeLoop(st, strategies, i) ==
    IF i > Len(strategies) THEN st
    ELSE ImputeLoop(ImputeColumn(st, strategies[i][1], strategies[i][2]), strategies, i + 1)

\* the returned table and the printed imputed_cols_count
impute_missing_values(t, strategies) ==
    IF t.absent \/ empty(t) THEN [df |-> None, count |-> 0]
    ELSE ImputeLoop([df |-> t, count |-> 0], strategies, 1)

----------------------------------------------------------------------------
(* handle_worked_last_7_days(df, worked_col) *)

handle_worked_last_7_days(t, worked_col) ==
    IF t.absent \/ worked_col \notin columns(t) THEN t
    ELSE IF any_isnull(t, worked_col) /\ mode(t.data[worked_col]) # <<>>
         THEN FillColumn(t, worked_col, mode(t.data[worked_col])[1])
         ELSE t

----------------------------------------------------------------------------
(* impute_primary_income_smart(df, worked_col, income_col, worked_value,   *)
(*                             not_worked_value)                           *)

\* df.loc[mask, col] = value, the mask being a set of row positions
SetWhere(t, c, mask, value) ==
    SetColumn(t, c, [i \in DOMAIN t.data[c] |-> IF i \in mask THEN value ELSE t.data[c][i]],
              IF mask = {} THEN t.dtype[c] ELSE DtypeAfterWrite(t.dtype[c], value))

\* (df[worked_col] == label) & (df[income_col].isna())
LabelAndMissing(t, worked_col, income_col, label) ==
    {i \in DOMAIN t.index : t.data[worked_col][i] = label /\ isna(t.data[income_col][i])}

\* step 1: df['has_primary_income'] = df[income_col].notna().astype(int)
WithFlag(t, income_col) ==
    SetColumn(t, "has_primary_income",
              [i \in DOMAIN t.index |-> IF notna(t.data[income_col][i]) THEN Num(1) ELSE Num(0)],
              "num")

\* step 2: 0 for those who did not work and have no income
ImputeNotWorked(t, worked_col, income_col, not_worked_value) ==
    SetWhere(t, income_col, LabelAndMissing(t, worked_col, income_col, not_worked_value), Num(0))

\* mutant: the overall median, whatever the work status
median_income_overall(t, worked_col, income_col, worked_value) ==
    IF notna(median(t.data[income_col])) THEN median(t.data[income_col]) ELSE Num(0)

\* step 3: the median of the workers' incomes, else the overall median, else 0
median_income_for_workers(t, worked_col, income_col, worked_value) ==
    LET Worker(i) == t.data[worked_col][i] = worked_value /\ notna(t.data[income_col][i])
        workers == [i \in DOMAIN t.index |-> IF Worker(i) THEN t.data[income_col][i] ELSE NaN]
    IN  IF notna(median(workers)) THEN median(workers)
        ELSE IF notna(median(t.data[income_col])) THEN median(t.data[income_col])
        ELSE Num(0)

ImputeWorked(t, worked_col, income_col, worked_value) ==
    SetWhere(t, income_col, LabelAndMissing(t, worked_col, income_col, worked_value),
             median_income_for_workers(t, worked_col, income_col, worked_value))

\* mutant: no final fill
KeepRemaining(t, income_col) == t

\* step 4: whatever is still missing becomes 0
FillRemaining(t, income_col) ==
    IF any_isnull(t, income_col) THEN FillColumn(t, income_col, Num(0)) ELSE t

\* mutant: the flag derived after the imputation instead of before it
impute_then_flag(t, worked_col, income_col, worked_value, not_worked_value) ==
    IF t.absent \/ income_col \notin columns(t) \/ worked_col \notin columns(t) THEN t
    ELSE WithFlag(
             FillRemaining(
                 ImputeWorked(
                     ImputeNotWorked(t, worked_col, income_col, not_worked_value),
                     worked_col, income_col, worked_value),
                 income_col),
             income_col)

impute_primary_income_smart(t, worked_col, income_col, worked_value, not_worked_value) ==
    IF t.absent \/ income_col \notin columns(t) \/ worked_col \notin columns(t) THEN t
    ELSE FillRemaining(
             ImputeWorked(
                 ImputeNotWorked(WithFlag(t, income_col), worked_col, income_col, not_worked_value),
                 worked_col, income_col, worked_value),
             income_col)

----------------------------------------------------------------------------
(* decode_categorical(df, column, mapping).  A mapping is a function from  *)
(* code values to label values.                                            *)

\* mutant: Series.replace(mapping), which keeps a code that is not in the mapping
ReplaceCells(cells, mapping) ==
    [i \in DOMAIN cells |-> IF cells[i] \in DOMAIN mapping THEN mapping[cells[i]] ELSE cells[i]]

\* Series.map(mapping): the label of a code of the mapping, missing otherwise
MapCells(cells, mapping) ==
    [i \in DOMAIN cells |-> IF cells[i] \in DOMAIN mapping THEN mapping[cells[i]] ELSE NaN]

Mapped(column) == column \o "_mapped"

\* the returned table and the number of unmapped values reported
decode_categorical(t, column, mapping) ==
    IF t.absent \/ column \notin columns(t) THEN [df |-> t, count |-> 0]
    ELSE LET new == MapCells(t.data[column], mapping)
             out == SetColumn(t, Mapped(column), new, InferDtype(new))
             unmapped == {i \in DOMAIN t.index :
                             isna(out.data[Mapped(column)][i]) /\ notna(out.data[column][i])}
         IN  [df |-> out, count |-> Cardinality(unmapped)]

----------------------------------------------------------------------------
(* save_data(df, file_path): returns nothing; written is the table that    *)
(* reaches the file (None when nothing is written), ok whether to_csv      *)
(* succeeded.                                                              *)

save_data(t, ok) ==
    IF t.absent \/ empty(t) THEN None
    ELSE IF ok THEN t ELSE None

----------------------------------------------------------------------------
(* Inputs *)

\* a table with the given columns and n rows labelled 1..n; cells[c] is column c
TableOf(cols, n, cells) ==
    DataFrame(cols, [i \in 1..n |-> i],
              [c \in Range(cols) |-> cells[c]],
              [c \in Range(cols) |-> InferDtype(cells[c])])

\* the subsequence of seq with the elements of S
Restrict(seq, S) ==
    LET pos == Positions([i \in DOMAIN seq |-> seq[i] \in S], 1)
    IN  [i \in DOMAIN pos |-> seq[pos[i]]]

\* sequences of at most n pairs <<k, v>>, k in K and v in V, with distinct k
PairSeqs(K, V, n) ==
    UNION {{m \in [1..len -> K \X V] :
               \A i, j \in 1..len : i # j => m[i][1] # m[j][1]} : len \in 0..n}

AgeColumn == "age"
WorkedColumn == "worked_last_7_days"
IncomeColumn == "primary_job_income_monthly"
CodeColumn == "urban_rural"
Yes == Txt("Yes")
No == Txt("No")

\* raw and renamed column names of COLUMNS_TO_EXTRACT
SelectNames == <<"region", "s1aq4y", "age">>

\* column maps: one-to-one, at most MaxMap entries
ColumnMaps ==
    {m \in PairSeqs(Range(SelectNames), Range(SelectNames), MaxMap) :
        \A i, j \in DOMAIN m : i # j => m[i][2] # m[j][2]}

SelectTables ==
    {TableOf(Restrict(SelectNames, S), n, [c \in S |-> [i \in 1..n |-> Num(i)]]) :
        S \in SUBSET Range(SelectNames), n \in 0..1}

AgeCells == {Num(14), Num(15), Num(25), NaN, Txt("abc"), Txt("25")}
MinAges == {15, 25}

\* the table whose age column holds the cells a
AgeTable(a) == TableOf(<<AgeColumn>>, Len(a), [c \in {AgeColumn} |-> a])

WorkedCells == {Yes, No, Txt("Other"), NaN}
IncomeCells == {NaN, Num(0), Num(400), Num(800)}

\* the table whose rows are the <<work status, income>> pairs r
IncomeTable(r) ==
    TableOf(<<WorkedColumn, IncomeColumn>>, Len(r),
            [c \in {WorkedColumn, IncomeColumn} |->
                [i \in DOMAIN r |-> IF c = WorkedColumn THEN r[i][1] ELSE r[i][2]]])

CodeCells == {Num(1), Num(2), Num(99), NaN}

\* URBAN_RURAL_MAP and its sub-maps
URBAN_RURAL_MAP == [c \in {Num(1), Num(2)} |-> IF c = Num(1) THEN Txt("Urban") ELSE Txt("Rural")]
Mappings == {[c \in K |-> URBAN_RURAL_MAP[c]] : K \in SUBSET DOMAIN URBAN_RURAL_MAP}

\* the table whose code column holds the cells a
CodeTable(a) == TableOf(<<CodeColumn>>, Len(a), [c \in {CodeColumn} |-> a])

Strategies == {Txt("median"), Txt("mode"), Num(0), OtherType}
StrategyMaps == PairSeqs({WorkedColumn, IncomeColumn}, Strategies, MaxMap)

\* a table of the imputation stages: work status, income and an untouched region column
ImputeTable(r) ==
    SetColumn(IncomeTable(r), "region", [i \in DOMAIN r |-> IF i = 1 THEN NaN ELSE Num(i)], "num")

DropLists == {<<"region">>, <<"age", "s1aq4y">>}

\* absent, empty and column-lacking tables
MisuseColumns == <<"region", AgeColumn, WorkedColumn, IncomeColumn, CodeColumn>>
MisuseTables ==
    {None} \cup
    {TableOf(Restrict(MisuseColumns, S), n, [c \in S |-> [i \in 1..n |-> Num(i)]]) :
        S \in SUBSET Range(MisuseColumns), n \in 0..1}

----------------------------------------------------------------------------
(* The stages as actions *)

\* a stage was called with the current table: its return value becomes the
\* current table
Call(name, a, result, count, file) ==
    /\ df' = result
    /\ prev' = df
    /\ op' = name
    /\ arg' = a
    /\ report' = count
    /\ saved' = file
    /\ steps' = steps + 1

SelectCols ==
    /\ steps < MaxSteps
    /\ \E m \in ColumnMaps :
           Call("select_and_rename_cols", m, select_and_rename_cols(df, m), 0, saved)

\* the selector applied to its own result with the same column map
SelectAgain ==
    /\ steps < MaxSteps
    /\ op = "select_and_rename_cols"
    /\ Call("select_again", arg, select_and_rename_cols(df, arg), 0, saved)

FilterByAge ==
    /\ steps < MaxSteps
    /\ \E a \in MinAges :
           Call("filter_by_age", a, filter_by_age(df, a, AgeColumn), 0, saved)

DropColumns ==
    /\ steps < MaxSteps
    /\ \E d \in DropLists :
           Call("drop_columns", d, drop_columns(df, d), 0, saved)

HandleWorked ==
    /\ steps < MaxSteps
    /\ Call("handle_worked_last_7_days", WorkedColumn,
            handle_worked_last_7_days(df, WorkedColumn), 0, saved)

ImputeIncome ==
    /\ steps < MaxSteps
    /\ Call("impute_primary_income_smart", IncomeColumn,
            impute_primary_income_smart(df, WorkedColumn, IncomeColumn, Yes, No), 0, saved)

ImputeMissing ==
    /\ steps < MaxSteps
    /\ \E s \in StrategyMaps :
           LET r == impute_missing_values(df, s)
           IN  Call("impute_missing_values", s, r.df, r.count, saved)

Decode ==
    /\ steps < MaxSteps
    /\ \E m \in Mappings :
           LET r == decode_categorical(df, CodeColumn, m)
           IN  Call("decode_categorical", m, r.df, r.count, saved)

SaveData ==
    /\ steps < MaxSteps
    /\ \E ok \in BOOLEAN :
           Call("save_data", ok, None, 0, save_data(df, ok))

----------------------------------------------------------------------------
(* Specifications *)

InitWith(table) ==
    /\ df = table
    /\ prev = None
    /\ op = "start"
    /\ arg = <<>>
    /\ report = 0
    /\ saved = None
    /\ steps = 0

\* the column selector, once and twice
InitSelect == \E t \in SelectTables \cup {None} : InitWith(t)
NextSelect == SelectCols \/ SelectAgain
SpecSelect == InitSelect /\ [][NextSelect]_vars

\* the age filter
InitAge == \E n \in 0..MaxAgeRows : \E a \in [1..n -> AgeCells] : InitWith(AgeTable(a))
NextAge == FilterByAge
SpecAge == InitAge /\ [][NextAge]_vars

\* the income imputer
InitIncome ==
    \E n \in 0..MaxRows : \E r \in [1..n -> WorkedCells \X IncomeCells] : InitWith(IncomeTable(r))
NextIncome == ImputeIncome
SpecIncome == InitIncome /\ [][NextIncome]_vars

\* the categorical decoder
InitDecode == \E n \in 0..MaxRows : \E a \in [1..n -> CodeCells] : InitWith(CodeTable(a))
NextDecode == Decode
SpecDecode == InitDecode /\ [][NextDecode]_vars

\* the three imputation stages in any order
InitImpute ==
    \E n \in 0..MaxImputeRows : \E r \in [1..n -> WorkedCells \X IncomeCells] :
        InitWith(ImputeTable(r))
NextImpute == HandleWorked \/ ImputeIncome \/ ImputeMissing
SpecImpute == InitImpute /\ [][NextImpute]_vars

\* every stage on absent, empty and column-lacking tables
InitMisuse == \E t \in MisuseTables : InitWith(t)
NextMisuse ==
    \/ SelectCols
    \/ FilterByAge
    \/ DropColumns
    \/ HandleWorked
    \/ ImputeIncome
    \/ ImputeMissing
    \/ Decode
    \/ SaveData
SpecMisuse == InitMisuse /\ [][NextMisuse]_vars

Init == InitMisuse
Next == NextMisuse
Spec == SpecMisuse

----------------------------------------------------------------------------
(* Column selector: claims C6, C7 *)

\* indices of the column map's entries whose source is a column of t
Requested(t, column_map) == {i \in DOMAIN column_map : column_map[i][1] \in columns(t)}

RenamesNothing(column_map) == \A i \in DOMAIN column_map : column_map[i][1] = column_map[i][2]

\* C6 as stated: selecting twice with the same map yields the same columns as
\* selecting once (prev is the once-selected table, df the twice-selected one).
C6_SelectionIdempotent ==
    op = "select_again" => df.absent = prev.absent /\ df.cols = prev.cols

\* C6 amended: selecting twice yields the same columns as selecting once when
\* the map renames nothing; in general the second selection keeps exactly the
\* mapped names of the map's sources found among the once-selected columns,
\* and is absent when there is none.
C6_IdempotentWhenNothingRenamed ==
    op = "select_again" =>
        /\ RenamesNothing(arg) => df.absent = prev.absent /\ df.cols = prev.cols
        /\ df.absent <=> Requested(prev, arg) = {}
        /\ columns(df) = {arg[i][2] : i \in Requested(prev, arg)}

C6_Witness ==
    /\ op = "select_again"
    /\ RenamesNothing(arg)
    /\ Len(arg) = 2
    /\ ~df.absent
    /\ df.cols = prev.cols

\* C7: on a non-empty table the output columns are exactly the mapped names of
\* the requested source columns that exist in the input.
C7_SelectionSubset ==
    (op = "select_and_rename_cols" /\ ~prev.absent /\ ~empty(prev)) =>
        /\ columns(df) = {arg[i][2] : i \in Requested(prev, arg)}
        /\ \A c \in columns(df) : \E i \in Requested(prev, arg) : arg[i][2] = c
        /\ \A i \in Requested(prev, arg) : ~df.absent /\ arg[i][2] \in columns(df)

C7_Witness ==
    /\ op = "select_and_rename_cols"
    /\ ~prev.absent /\ ~empty(prev)
    /\ arg = <<<<"s1aq4y", "age">>, <<"region", "region">>>>
    /\ prev.cols = <<"s1aq4y">>
    /\ df.cols = <<"age">>

----------------------------------------------------------------------------
(* Age filter: claim C4 *)

\* the cell parses to a number >= min_age
ParsesToAtLeast(v, min_age) ==
    \/ v.k = "num" /\ v.n >= min_age
    \/ v.k = "txt" /\ v.s \in Parsable /\ NumberOf(v.s) >= min_age

\* C4: on a non-empty table with the age column, the filter returns exactly the
\* input rows whose age parses to a number >= min_age, in their order; every
\* retained age is a number >= min_age and none is missing.
C4_AgeFilterExact ==
    (op = "filter_by_age" /\ ~prev.absent /\ ~empty(prev) /\ AgeColumn \in columns(prev)) =>
        /\ ~df.absent
        /\ Range(df.index) =
               {prev.index[i] : i \in {j \in DOMAIN prev.index :
                                          ParsesToAtLeast(prev.data[AgeColumn][j], arg)}}
        /\ \A i, j \in DOMAIN df.index : i < j => df.index[i] < df.index[j]
        /\ \A i \in DOMAIN df.index :
               /\ df.data[AgeColumn][i].k = "num"
               /\ df.data[AgeColumn][i].n >= arg

\* Scenario A: ages 14, 25, missing, "abc" with min_age 15 retain only the row with 25
C4_Witness ==
    /\ op = "filter_by_age"
    /\ arg = 15
    /\ ~prev.absent
    /\ prev.data[AgeColumn] = <<Num(14), Num(25), NaN, Txt("abc")>>
    /\ df.index = <<2>>
    /\ df.data[AgeColumn] = <<Num(25)>>

----------------------------------------------------------------------------
(* Categorical decoder: claim C5 *)

\* C5: decoding keeps the rows and the source column with its values, and adds
\* <name>_mapped, missing exactly where the code is missing or not a key of the
\* mapping; the reported count is the number of non-missing codes not in the mapping.
C5_DecoderAdditive ==
    (op = "decode_categorical" /\ ~prev.absent /\ CodeColumn \in columns(prev)) =>
        /\ ~df.absent
        /\ df.index = prev.index
        /\ CodeColumn \in columns(df)
        /\ df.data[CodeColumn] = prev.data[CodeColumn]
        /\ Mapped(CodeColumn) \in columns(df)
        /\ \A i \in DOMAIN prev.index :
               isna(df.data[Mapped(CodeColumn)][i]) <=>
                   (isna(prev.data[CodeColumn][i]) \/ prev.data[CodeColumn][i] \notin DOMAIN arg)
        /\ report = Cardinality({i \in DOMAIN prev.index :
                                    /\ notna(prev.data[CodeColumn][i])
                                    /\ prev.data[CodeColumn][i] \notin DOMAIN arg})

\* Scenario E: code 99 decodes to a missing value, counted as one unmapped value
C5_Witness ==
    /\ op = "decode_categorical"
    /\ arg = URBAN_RURAL_MAP
    /\ ~prev.absent
    /\ prev.cols = <<CodeColumn>>
    /\ prev.data[CodeColumn] = <<Num(1), Num(99), NaN>>
    /\ df.cols = <<CodeColumn, Mapped(CodeColumn)>>
    /\ df.data[Mapped(CodeColumn)] = <<Txt("Urban"), NaN, NaN>>
    /\ report = 1

----------------------------------------------------------------------------
(* Income imputer: claims C1, C2, C3 *)

IncomeImputed ==
    /\ op = "impute_primary_income_smart"
    /\ ~prev.absent
    /\ WorkedColumn \in columns(prev)
    /\ IncomeColumn \in columns(prev)

\* C1: whatever the work-status values, no income is missing in the returned table.
C1_IncomeTotal ==
    IncomeImputed =>
        /\ ~df.absent
        /\ df.index = prev.index
        /\ \A i \in DOMAIN df.index : notna(df.data[IncomeColumn][i])

\* work status missing or unrecognised, and no median computable
C1_Witness ==
    /\ IncomeImputed
    /\ prev.data[WorkedColumn] = <<NaN, Txt("Other"), Yes>>
    /\ prev.data[IncomeColumn] = <<NaN, NaN, NaN>>
    /\ df.data[IncomeColumn] = <<Num(0), Num(0), Num(0)>>

\* the incomes of the input's worked rows that are present
WorkerIncomes(t) ==
    [i \in DOMAIN t.index |->
        IF t.data[WorkedColumn][i] = Yes THEN t.data[IncomeColumn][i] ELSE NaN]

\* the income values present once the did-not-work rows without income hold 0
PresentIncomes(t) ==
    [i \in DOMAIN t.index |->
        IF isna(t.data[IncomeColumn][i]) /\ t.data[WorkedColumn][i] = No
        THEN Num(0) ELSE t.data[IncomeColumn][i]]

ExpectedWorkerIncome(t) ==
    IF \E i \in DOMAIN t.index : notna(WorkerIncomes(t)[i]) THEN median(WorkerIncomes(t))
    ELSE IF \E i \in DOMAIN t.index : notna(PresentIncomes(t)[i]) THEN median(PresentIncomes(t))
    ELSE Num(0)

\* C2: a did-not-work row without income gets 0; a worked row without income
\* gets the median of the worked rows' present incomes, else the median of all
\* income values present at that step (the zeros just given to did-not-work
\* rows included), else 0.
C2_IncomeValues ==
    IncomeImputed =>
        \A i \in DOMAIN prev.index :
            isna(prev.data[IncomeColumn][i]) =>
                /\ prev.data[WorkedColumn][i] = No => df.data[IncomeColumn][i] = Num(0)
                /\ prev.data[WorkedColumn][i] = Yes =>
                       df.data[IncomeColumn][i] = ExpectedWorkerIncome(prev)

\* the median of the workers' incomes is used (Scenario C with three rows)
C2_Witness ==
    /\ IncomeImputed
    /\ prev.data[WorkedColumn] = <<Yes, Yes, Yes>>
    /\ prev.data[IncomeColumn] = <<Num(800), NaN, Num(400)>>
    /\ df.data[IncomeColumn] = <<Num(800), Num(600), Num(400)>>

\* C3: has_primary_income is 1 exactly for the rows whose income was present in
\* the input, whatever the imputation wrote afterwards.
C3_FlagFromInput ==
    IncomeImputed =>
        /\ "has_primary_income" \in columns(df)
        /\ \A i \in DOMAIN prev.index :
               df.data["has_primary_income"][i] =
                   (IF notna(prev.data[IncomeColumn][i]) THEN Num(1) ELSE Num(0))

C3_Witness ==
    /\ IncomeImputed
    /\ prev.data[IncomeColumn] = <<Num(400), NaN>>
    /\ df.data[IncomeColumn] = <<Num(400), Num(0)>>
    /\ df.data["has_primary_income"] = <<Num(1), Num(0)>>

----------------------------------------------------------------------------
(* Generic imputer: claim C8 *)

\* entries of the strategy map whose column is in t and has missing values
HadMissing(t, strategies) ==
    {i \in DOMAIN strategies :
        strategies[i][1] \in columns(t) /\ any_isnull(t, strategies[i][1])}

\* the documented reasons for skipping a column
MaySkip(t, col, strategy) ==
    \/ strategy = Txt("median") /\ ~is_numeric_dtype(t, col)
    \/ strategy \in {Txt("median"), Txt("mode")} /\ \A i \in DOMAIN t.index : isna(t.data[col][i])
    \/ strategy.k = "other"

\* C8: every strategy column that had missing values either has none left and
\* is counted, or was skipped for a documented reason, is unchanged and is not
\* counted; the reported count never includes a column with missing values left.
C8_CountedOnlyWhenFilled ==
    (op = "impute_missing_values" /\ ~prev.absent /\ ~empty(prev)) =>
        LET had == HadMissing(prev, arg)
            filled == {i \in had : ~any_isnull(df, arg[i][1])}
        IN  /\ report = Cardinality(filled)
            /\ \A i \in had \ filled :
                   /\ df.data[arg[i][1]] = prev.data[arg[i][1]]
                   /\ MaySkip(prev, arg[i][1], arg[i][2])

----------------------------------------------------------------------------
(* Misuse of the stages: claim C9 *)

\* the table lacks the column(s) the stage requires
Lacks(name, t, a) ==
    CASE name = "select_and_rename_cols" -> Requested(t, a) = {}
      [] name = "filter_by_age" -> AgeColumn \notin columns(t)
      [] name = "drop_columns" -> Range(a) \cap columns(t) = {}
      [] name = "handle_worked_last_7_days" -> WorkedColumn \notin columns(t)
      [] name = "impute_primary_income_smart" ->
             WorkedColumn \notin columns(t) \/ IncomeColumn \notin columns(t)
      [] name = "impute_missing_values" -> \A i \in DOMAIN a : a[i][1] \notin columns(t)
      [] name = "decode_categorical" -> CodeColumn \notin columns(t)
      [] OTHER -> FALSE

\* C9: a stage called with an absent table, an empty table or a table lacking
\* its column returns an absent result or the table unchanged, and an absent
\* table stays absent.
C9_MisuseIsSafe ==
    (op # "start" /\ (prev.absent \/ empty(prev) \/ Lacks(op, prev, arg))) =>
        /\ df.absent \/ df = prev
        /\ prev.absent => df.absent

----------------------------------------------------------------------------
(* Frame of the imputation stages: claim C10 *)

ImputationStages ==
    {"handle_worked_last_7_days", "impute_primary_income_smart", "impute_missing_values"}

\* the columns the last stage may write
Targets ==
    CASE op = "handle_worked_last_7_days" -> {WorkedColumn}
      [] op = "impute_primary_income_smart" -> {IncomeColumn, "has_primary_income"}
      [] op = "impute_missing_values" -> {arg[i][1] : i \in DOMAIN arg}
      [] OTHER -> {}

\* C10: over any sequence of imputation calls a stage keeps the rows and their
\* order, keeps every cell that was non-missing in its input, and leaves every
\* column other than its targets and the added flag unchanged.
C10_ImputationFrame ==
    (op \in ImputationStages /\ ~prev.absent /\ ~df.absent) =>
        /\ df.index = prev.index
        /\ \A c \in columns(prev) :
               /\ c \in columns(df)
               /\ \A i \in DOMAIN prev.index :
                      notna(prev.data[c][i]) => df.data[c][i] = prev.data[c][i]
        /\ \A c \in columns(prev) \ Targets : df.data[c] = prev.data[c]

====
